---- MODULE Spec2Model ----
(***************************************************************************)
(* Model of the natural-language-to-parameter pipeline of the plugin:      *)
(*   Content/Python/utils/config.py        Config.get_api_key              *)
(*   Content/Python/ai/openai_client.py    NiagaraAIAssistant              *)
(*   Content/Python/niagara/parameter_manager.py  ParameterManager setters *)
(* One call of adjust_parameters is a sequence of steps (pc); the          *)
(* completion provider and the host store are the environment: the text    *)
(* returned, and whether a host call raises, are nondeterministic.         *)
(***************************************************************************)
EXTENDS Integers, Sequences, FiniteSets, TLC

\* ---------------------------------------------------------------- bounds
\* largest number of (name, value) pairs in a "parameters" mapping
MaxParams == 2

\* largest number of names get_parameter_names enumerates for a bulk read
MaxNames == 2

\* ------------------------------------------------------- python values
\* Python's None (os.getenv of an unset variable, Config.get_api_key)
None == "None"

\* truthiness of an optional string: None and "" are falsy
Truthy(s) == s # None /\ s # ""

\* values the environment variable OPENAI_API_KEY can have
EnvKeys == {None, "", "sk-test"}

\* ---------------------------------------------------------- JSON values
\* keys an object value may carry
Keys == {"r", "g", "b", "a", "x", "y", "z"}

\* parameter names the completion may mention
Names == {"Tint", "Offset", "Enabled"}

\* component assignments used to build object values
CompA == [k \in Keys |-> IF k = "r" THEN 1 ELSE IF k = "x" THEN 5 ELSE 0]
CompB == [k \in Keys |-> 2]

\* key sets of the object values
ObjKeySets ==
  { {"r", "g", "b"}, {"r", "g", "b", "a"}, {"x", "y", "z"}, {"x"},
    {"r", "g"}, {"r", "g", "b", "x", "y", "z"} }

\* a JSON value: kind, numeric payload, boolean payload, object payload
MkValue(kind, num, b, keys, at) ==
  [kind |-> kind, num |-> num, b |-> b, keys |-> keys, at |-> at]

NoAt == [k \in Keys |-> 0]

NumberValue(n) == MkValue("number", n, FALSE, {}, NoAt)
BoolValue(b) == MkValue("bool", 0, b, {}, NoAt)
StringValue == MkValue("string", 0, FALSE, {}, NoAt)
ObjectValue(keys, f) ==
  MkValue("object", 0, FALSE, keys, [k \in Keys |-> IF k \in keys THEN f[k] ELSE 0])

Values ==
  {NumberValue(0), NumberValue(5), BoolValue(TRUE), BoolValue(FALSE), StringValue}
  \cup {ObjectValue(K, f) : K \in ObjKeySets, f \in {CompA, CompB}}

\* value.get(k, default) of a dict value
DictGet(value, k, default) == IF k \in value.keys THEN value.at[k] ELSE default

\* (name, value) pairs and the parameters mappings, in insertion order
Pairs == [name : Names, value : Values]

Mappings ==
  { m \in UNION {[1..n -> Pairs] : n \in 0..MaxParams} :
      \A i, j \in DOMAIN m : i # j => m[i].name # m[j].name }

\* a parsed response document
NonObjectDoc ==
  [isobject |-> FALSE, has_parameters |-> FALSE, parameters |-> <<>>,
   has_explanation |-> FALSE, explanation |-> ""]

ObjectDoc(hp, p, he) ==
  [isobject |-> TRUE, has_parameters |-> hp, parameters |-> p,
   has_explanation |-> he, explanation |-> IF he THEN "expl" ELSE ""]

Docs ==
  {NonObjectDoc}
  \cup {ObjectDoc(TRUE, p, he) : p \in Mappings, he \in BOOLEAN}
  \cup {ObjectDoc(FALSE, <<>>, he) : he \in BOOLEAN}

\* a completion text: well-formed JSON for doc, or a malformed text whose
\* readable part is doc
Texts == [wellformed : BOOLEAN, doc : Docs]

NoText == [wellformed |-> FALSE, doc |-> NonObjectDoc]

\* the explanation used when the response carries none (openai_client.py:90)
DefaultExplanation == "no explanation"

\* marks that no explanation was logged in this call
NotLogged == "not logged"

\* -------------------------------------------------------------- config
\* faulty variant: the environment value as it is, "" included
get_api_key_raw(env) == env

\* Config.get_api_key: the environment value when truthy, else None
get_api_key(env) == IF Truthy(env) THEN env ELSE None

\* ------------------------------------------------------------ json.loads
\* faulty variant: salvages the readable part of a malformed text
json_loads_lenient(text) == [ok |-> TRUE, value |-> text.doc]

\* json.loads raises on a malformed text, else yields the document
json_loads(text) ==
  IF text.wellformed THEN [ok |-> TRUE, value |-> text.doc]
  ELSE [ok |-> FALSE, value |-> NonObjectDoc]

\* ------------------------------------------------- _apply_adjustments
\* faulty variant: adjustments["parameters"], a KeyError when absent
GetParametersIndexed(adj) ==
  [raises |-> ~adj.has_parameters,
   value |-> IF adj.has_parameters THEN adj.parameters ELSE <<>>]

\* adjustments.get("parameters", {}): never raises on a dict
GetParameters(adj) ==
  [raises |-> FALSE,
   value |-> IF adj.has_parameters THEN adj.parameters ELSE <<>>]

\* adjustments.get("explanation", default)
GetExplanation(adj) ==
  IF adj.has_explanation THEN adj.explanation ELSE DefaultExplanation

\* isinstance(value, dict)
IsDict(value) == value.kind = "object"

\* isinstance(value, (int, float)): Python's bool is a subclass of int
IsIntOrFloat(value) == value.kind \in {"number", "bool"}

\* isinstance(value, bool)
IsBool(value) == value.kind = "bool"

\* faulty variant: any one of x, y, z makes an object a vector
ClassifyAnyVectorKey(value) ==
  IF IsDict(value)
  THEN IF {"r", "g", "b"} \subseteq value.keys THEN "color"
       ELSE IF {"x", "y", "z"} \cap value.keys # {} THEN "vector"
       ELSE "skip"
  ELSE IF IsIntOrFloat(value) THEN "float"
  ELSE IF IsBool(value) THEN "bool"
  ELSE "unknown"

\* the branch of the loop body a value takes
Classify(value) ==
  IF IsDict(value)
  THEN IF {"r", "g", "b"} \subseteq value.keys THEN "color"
       ELSE IF {"x", "y", "z"} \subseteq value.keys THEN "vector"
       ELSE "skip"
  ELSE IF IsIntOrFloat(value) THEN "float"
  ELSE IF IsBool(value) THEN "bool"
  ELSE "unknown"

\* branches that invoke a setter
SetterKinds == {"color", "vector", "float", "bool"}

\* faulty variant: a missing alpha defaults to 0
ColorArgsTransparent(value) ==
  << DictGet(value, "r", 1), DictGet(value, "g", 1),
     DictGet(value, "b", 1), DictGet(value, "a", 0) >>

\* the r, g, b, a handed to set_color
ColorArgs(value) ==
  << DictGet(value, "r", 1), DictGet(value, "g", 1),
     DictGet(value, "b", 1), DictGet(value, "a", 1) >>

\* the x, y, z handed to set_vector
VectorArgs(value) ==
  << DictGet(value, "x", 0), DictGet(value, "y", 0), DictGet(value, "z", 0) >>

\* faulty variant: counts only the pairs that reach a setter
TotalCountClassified(params) ==
  Cardinality({i \in DOMAIN params : Classify(params[i].value) \in SetterKinds})

\* total_count = len(parameters)
TotalCount(params) == Len(params)

\* faulty variant: success only when every pair succeeded
ApplyResultAll(sc, tc) == sc = tc

\* return success_count > 0
ApplyResult(sc, tc) == sc > 0

\* faulty variant: the explanation is logged outside the "if success:"
LogsExplanationAlways(succ) == TRUE

\* whether adjust_parameters logs the explanation: inside "if success:"
LogsExplanation(succ) == succ

\* --------------------------------------------------- ParameterManager
\* float(value) / bool(value) as the setters convert their argument
PyFloat(value) == IF value.kind = "bool" THEN (IF value.b THEN 1 ELSE 0) ELSE value.num
PyBool(value) == IF value.kind = "bool" THEN value.b ELSE value.num # 0

\* faulty variant: no try/except, a failed host write propagates
set_float_raises(name, value, hostok) ==
  [call |-> [fn |-> "set_float", name |-> name, arg |-> <<PyFloat(value)>>,
             ret |-> hostok],
   outcome |-> IF hostok THEN "True" ELSE "raise"]

\* Each setter: try the host write, return True; except Exception: log and
\* return False.  hostok says whether the host write went through.
set_float(name, value, hostok) ==
  [call |-> [fn |-> "set_float", name |-> name, arg |-> <<PyFloat(value)>>,
             ret |-> hostok],
   outcome |-> IF hostok THEN "True" ELSE "False"]

set_color(name, rgba, hostok) ==
  [call |-> [fn |-> "set_color", name |-> name, arg |-> rgba, ret |-> hostok],
   outcome |-> IF hostok THEN "True" ELSE "False"]

set_vector(name, xyz, hostok) ==
  [call |-> [fn |-> "set_vector", name |-> name, arg |-> xyz, ret |-> hostok],
   outcome |-> IF hostok THEN "True" ELSE "False"]

set_bool(name, value, hostok) ==
  [call |-> [fn |-> "set_bool", name |-> name,
             arg |-> <<IF PyBool(value) THEN 1 ELSE 0>>, ret |-> hostok],
   outcome |-> IF hostok THEN "True" ELSE "False"]

\* the setter call the loop body makes for a classified pair
Invoke(cls, name, value, hostok) ==
  CASE cls = "color" -> set_color(name, ColorArgs(value), hostok)
    [] cls = "vector" -> set_vector(name, VectorArgs(value), hostok)
    [] cls = "float" -> set_float(name, value, hostok)
    [] cls = "bool" -> set_bool(name, value, hostok)

SetterFns == {"set_float", "set_bool", "set_color", "set_vector"}

\* --------------------------------------------- ParameterManager reads
\* values a read hands back; NoValue is Python's None in an entry
FloatValue(x) == [t |-> "float", v |-> <<x>>]
VectorValue(x, y, z) == [t |-> "vector", v |-> <<x, y, z>>]
ColorValue(r, g, b, a) == [t |-> "color", v |-> <<r, g, b, a>>]
NoValue == [t |-> "none", v |-> <<>>]

\* how the host answers the three reads of one name: TRUE when the read
\* goes through, FALSE when it raises
HostReads == [float : BOOLEAN, vector : BOOLEAN, color : BOOLEAN]

\* the names a component advertises, in enumeration order
NameLists ==
  { ns \in UNION {[1..n -> Names] : n \in 0..MaxNames} :
      \A i, j \in DOMAIN ns : i # j => ns[i] # ns[j] }

\* get_float: the host value, or 0.0 from the except clause; never raises
get_float(hostok) ==
  [raises |-> FALSE, value |-> IF hostok THEN FloatValue(7) ELSE FloatValue(0)]

\* get_vector: the host value, or Vector(0, 0, 0); never raises
get_vector(hostok) ==
  [raises |-> FALSE,
   value |-> IF hostok THEN VectorValue(1, 2, 3) ELSE VectorValue(0, 0, 0)]

\* get_color: the host value, or LinearColor(1, 1, 1, 1); never raises
get_color(hostok) ==
  [raises |-> FALSE,
   value |-> IF hostok THEN ColorValue(1, 0, 0, 1) ELSE ColorValue(1, 1, 1, 1)]

\* the nested try/except of get_all_parameters for one name: the entry of
\* the first getter that does not raise, else "unknown" with None
ProbeEntry(name, h) ==
  LET f == get_float(h.float)
      v == get_vector(h.vector)
      c == get_color(h.color)
  IN IF ~f.raises THEN [name |-> name, type |-> "float", value |-> f.value]
     ELSE IF ~v.raises THEN [name |-> name, type |-> "vector", value |-> v.value]
     ELSE IF ~c.raises THEN [name |-> name, type |-> "color", value |-> c.value]
     ELSE [name |-> name, type |-> "unknown", value |-> NoValue]

\* ---------------------------------------------------------------- state
VARIABLES
  OPENAI_AVAILABLE,  \* the openai import succeeded
  env_api_key,       \* os.getenv("OPENAI_API_KEY")
  api_key,           \* self.api_key
  client,            \* whether self.client was created
  pc,                \* position in adjust_parameters
  ai_response,       \* the completion text
  adjustments,       \* json.loads(ai_response)
  parameters,        \* adjustments.get("parameters", {})
  idx,               \* position of the loop in parameters.items()
  success_count,
  total_count,
  success,           \* value returned by _apply_adjustments
  report,            \* <<success_count, total_count>> once logged, else <<>>
  explained,         \* explanation logged by adjust_parameters
  caught,            \* exception caught by adjust_parameters, else None
  calls,             \* calls made to the provider and the parameter manager
  ret                \* value returned by adjust_parameters (at pc = "done")

\* state of a get_all_parameters call
VARIABLES
  gp_pc,             \* position in get_all_parameters
  gp_names,          \* param_names
  gp_host,           \* how the host answered the reads of each name so far
  params             \* the entries recorded so far, in order

bulk == <<gp_pc, gp_names, gp_host, params>>

config == <<OPENAI_AVAILABLE, env_api_key, api_key, client>>
locals == <<ai_response, adjustments, parameters, idx, success_count,
            total_count, success, report, explained, caught, calls, ret>>
vars == <<config, pc, locals, bulk>>

\* NiagaraAIAssistant.is_available
is_available == OPENAI_AVAILABLE /\ api_key # None

\* the locals of a call that has not started
Fresh ==
  /\ ai_response = NoText
  /\ adjustments = NonObjectDoc
  /\ parameters = <<>>
  /\ idx = 0
  /\ success_count = 0
  /\ total_count = 0
  /\ success = FALSE
  /\ report = <<>>
  /\ explained = NotLogged
  /\ caught = None
  /\ calls = <<>>
  /\ ret = FALSE

\* NiagaraAIAssistant.__init__ has run
Init ==
  /\ OPENAI_AVAILABLE \in BOOLEAN
  /\ env_api_key \in EnvKeys
  /\ api_key = get_api_key(env_api_key)
  /\ client = (OPENAI_AVAILABLE /\ Truthy(api_key))
  /\ pc = "idle"
  /\ Fresh
  /\ gp_pc = "idle"
  /\ gp_names = <<>>
  /\ gp_host = <<>>
  /\ params = <<>>

\* the except clause of adjust_parameters: log, return False
Except(e) ==
  /\ caught' = e
  /\ ret' = FALSE
  /\ pc' = "done"

\* adjust_parameters is entered: availability check
Call ==
  /\ pc = "idle"
  /\ gp_pc = "idle"
  /\ IF ~is_available
     THEN /\ ret' = FALSE
          /\ pc' = "done"
     ELSE /\ pc' = "build_prompt"
          /\ UNCHANGED ret
  /\ UNCHANGED <<config, ai_response, adjustments, parameters, idx,
                 success_count, total_count, success, report, explained,
                 caught, calls>>
  /\ UNCHANGED bulk

\* _build_prompt: get_parameter_names returns the names, or [] when the
\* host call raises
BuildPrompt ==
  /\ pc = "build_prompt"
  /\ \E hostok \in BOOLEAN :
       calls' = Append(calls, [fn |-> "get_parameter_names", name |-> "",
                               arg |-> <<>>, ret |-> hostok])
  /\ pc' = "create"
  /\ UNCHANGED <<config, ai_response, adjustments, parameters, idx,
                 success_count, total_count, success, report, explained,
                 caught, ret>>
  /\ UNCHANGED bulk

\* faulty variant: a failed completion call is tried once more
CreateRetries ==
  /\ pc = "create"
  /\ IF ~client
     THEN /\ Except("AttributeError")
          /\ UNCHANGED <<ai_response, calls>>
     ELSE \E ok \in BOOLEAN :
            /\ calls' = Append(calls, [fn |-> "create", name |-> "",
                                       arg |-> <<>>, ret |-> ok])
            /\ IF ok
               THEN /\ \E text \in Texts : ai_response' = text
                    /\ pc' = "parse"
                    /\ UNCHANGED <<caught, ret>>
               ELSE IF Len(calls) < 2
                    THEN UNCHANGED <<pc, caught, ret, ai_response>>
                    ELSE /\ Except("ProviderError")
                         /\ UNCHANGED ai_response
  /\ UNCHANGED <<config, adjustments, parameters, idx, success_count,
                 total_count, success, report, explained>>
  /\ UNCHANGED bulk

\* self.client.chat.completions.create(...): returns a text or raises
Create ==
  /\ pc = "create"
  /\ IF ~client
     THEN /\ Except("AttributeError")
          /\ UNCHANGED <<ai_response, calls>>
     ELSE \E ok \in BOOLEAN :
            /\ calls' = Append(calls, [fn |-> "create", name |-> "",
                                       arg |-> <<>>, ret |-> ok])
            /\ IF ok
               THEN /\ \E text \in Texts : ai_response' = text
                    /\ pc' = "parse"
                    /\ UNCHANGED <<caught, ret>>
               ELSE /\ Except("ProviderError")
                    /\ UNCHANGED ai_response
  /\ UNCHANGED <<config, adjustments, parameters, idx, success_count,
                 total_count, success, report, explained>>
  /\ UNCHANGED bulk

\* adjustments = json.loads(ai_response)
Parse ==
  /\ pc = "parse"
  /\ LET r == json_loads(ai_response) IN
       IF r.ok
       THEN /\ adjustments' = r.value
            /\ pc' = "apply"
            /\ UNCHANGED <<caught, ret>>
       ELSE /\ Except("JSONDecodeError")
            /\ UNCHANGED adjustments
  /\ UNCHANGED <<config, ai_response, parameters, idx, success_count,
                 total_count, success, report, explained, calls>>
  /\ UNCHANGED bulk

\* _apply_adjustments up to the loop: read parameters, return False when
\* empty, else set the counters
ApplyBegin ==
  /\ pc = "apply"
  /\ IF ~adjustments.isobject
     THEN /\ Except("AttributeError")
          /\ UNCHANGED <<parameters, idx, success_count, total_count, success>>
     ELSE LET g == GetParameters(adjustments) IN
          IF g.raises
          THEN /\ Except("KeyError")
               /\ UNCHANGED <<parameters, idx, success_count, total_count,
                              success>>
          ELSE /\ parameters' = g.value
               /\ UNCHANGED <<caught, ret>>
               /\ IF g.value = <<>>
                  THEN /\ success' = FALSE
                       /\ pc' = "finish"
                       /\ UNCHANGED <<idx, success_count, total_count>>
                  ELSE /\ success_count' = 0
                       /\ total_count' = TotalCount(g.value)
                       /\ idx' = 1
                       /\ pc' = "loop"
                       /\ UNCHANGED success
  /\ UNCHANGED <<config, ai_response, adjustments, report, explained, calls>>
  /\ UNCHANGED bulk

\* one iteration of "for param_name, value in parameters.items()"
ApplyPair ==
  /\ pc = "loop"
  /\ idx <= Len(parameters)
  /\ LET p == parameters[idx]
         cls == Classify(p.value)
     IN IF cls \in SetterKinds
        THEN \E hostok \in BOOLEAN :
               LET r == Invoke(cls, p.name, p.value, hostok) IN
                 /\ calls' = Append(calls, r.call)
                 /\ IF r.outcome = "raise"
                    THEN /\ Except("Exception")
                         /\ UNCHANGED <<idx, success_count>>
                    ELSE /\ success_count' =
                              IF r.outcome = "True" THEN success_count + 1
                              ELSE success_count
                         /\ idx' = idx + 1
                         /\ UNCHANGED <<pc, caught, ret>>
        ELSE /\ idx' = idx + 1
             /\ UNCHANGED <<pc, caught, ret, calls, success_count>>
  /\ UNCHANGED <<config, ai_response, adjustments, parameters, total_count,
                 success, report, explained>>
  /\ UNCHANGED bulk

\* after the loop: log success_count/total_count, return success_count > 0
ApplyReturn ==
  /\ pc = "loop"
  /\ idx > Len(parameters)
  /\ report' = <<success_count, total_count>>
  /\ success' = ApplyResult(success_count, total_count)
  /\ pc' = "finish"
  /\ UNCHANGED <<config, ai_response, adjustments, parameters, idx,
                 success_count, total_count, explained, caught, calls, ret>>
  /\ UNCHANGED bulk

\* adjust_parameters after _apply_adjustments returned: log the
\* explanation when success, return success
Finish ==
  /\ pc = "finish"
  /\ explained' = IF LogsExplanation(success) THEN GetExplanation(adjustments)
                  ELSE NotLogged
  /\ ret' = success
  /\ pc' = "done"
  /\ UNCHANGED <<config, ai_response, adjustments, parameters, idx,
                 success_count, total_count, success, report, caught, calls>>
  /\ UNCHANGED bulk

\* the caller has the result; the locals of the call are gone
Return ==
  /\ pc = "done"
  /\ pc' = "idle"
  /\ ai_response' = NoText
  /\ adjustments' = NonObjectDoc
  /\ parameters' = <<>>
  /\ idx' = 0
  /\ success_count' = 0
  /\ total_count' = 0
  /\ success' = FALSE
  /\ report' = <<>>
  /\ explained' = NotLogged
  /\ caught' = None
  /\ calls' = <<>>
  /\ ret' = FALSE
  /\ UNCHANGED config
  /\ UNCHANGED bulk

\* get_all_parameters is entered: get_parameter_names yields the names, or
\* [] when the host enumeration raises
GetAllBegin ==
  /\ pc = "idle"
  /\ gp_pc = "idle"
  /\ \E ok \in BOOLEAN, ns \in NameLists :
       gp_names' = IF ok THEN ns ELSE <<>>
  /\ gp_host' = <<>>
  /\ params' = <<>>
  /\ gp_pc' = "loop"
  /\ UNCHANGED <<config, pc, locals>>

\* one iteration of "for name in param_names"
GetAllName ==
  /\ gp_pc = "loop"
  /\ Len(params) < Len(gp_names)
  /\ \E h \in HostReads :
       /\ gp_host' = Append(gp_host, h)
       /\ params' = Append(params, ProbeEntry(gp_names[Len(params) + 1], h))
  /\ UNCHANGED <<config, pc, locals, gp_pc, gp_names>>

\* return params
GetAllReturn ==
  /\ gp_pc = "loop"
  /\ Len(params) = Len(gp_names)
  /\ gp_pc' = "idle"
  /\ gp_names' = <<>>
  /\ gp_host' = <<>>
  /\ params' = <<>>
  /\ UNCHANGED <<config, pc, locals>>

Next ==
  \/ Call
  \/ BuildPrompt
  \/ Create
  \/ Parse
  \/ ApplyBegin
  \/ ApplyPair
  \/ ApplyReturn
  \/ Finish
  \/ Return
  \/ GetAllBegin
  \/ GetAllName
  \/ GetAllReturn

Spec == Init /\ [][Next]_vars

\* ------------------------------------------------------- observations
\* the setter invocations of the call, in order
SetterCalls == SelectSeq(calls, LAMBDA c : c.fn \in SetterFns)

\* the setter invocations for one parameter name
CallsFor(n) == SelectSeq(calls, LAMBDA c : c.fn \in SetterFns /\ c.name = n)

\* the completion call of this invocation has returned a text
TextReturned == \E i \in DOMAIN calls : calls[i].fn = "create" /\ calls[i].ret

\* the completion text was returned and parsed as JSON
ParsedJson == TextReturned /\ ai_response.wellformed /\ pc # "parse"

\* pairs the loop has gone through
Processed ==
  IF pc \in {"loop", "finish", "done"}
  THEN {i \in DOMAIN parameters : i < idx}
  ELSE {}

\* the shapes the specification recognises
IsColorObject(v) == v.kind = "object" /\ {"r", "g", "b"} \subseteq v.keys
IsVectorObject(v) ==
  v.kind = "object" /\ ~IsColorObject(v) /\ {"x", "y", "z"} \subseteq v.keys
IsRecognized(v) ==
  v.kind \in {"number", "bool"} \/ IsColorObject(v) \/ IsVectorObject(v)

\* ------------------------------------------------------------- claims

\* C1 (as stated): every boolean value the loop has gone through was
\* handed to set_bool and not to set_float.
C1_BooleanUsesSetBool ==
  \A i \in Processed :
    parameters[i].value.kind = "bool" =>
      /\ \E k \in DOMAIN calls :
           calls[k].fn = "set_bool" /\ calls[k].name = parameters[i].name
      /\ ~\E k \in DOMAIN calls :
           calls[k].fn = "set_float" /\ calls[k].name = parameters[i].name

\* C2 (as stated): an object value that carries some but not all of x, y, z
\* is applied through set_vector with the missing components as 0.
C2_PartialVectorDefaulted ==
  \A i \in Processed :
    LET v == parameters[i].value IN
      ( /\ v.kind = "object"
        /\ ~IsColorObject(v)
        /\ v.keys \cap {"x", "y", "z"} # {}
        /\ ~({"x", "y", "z"} \subseteq v.keys) )
      => \E k \in DOMAIN calls :
           /\ calls[k].fn = "set_vector"
           /\ calls[k].name = parameters[i].name
           /\ calls[k].arg = << DictGet(v, "x", 0), DictGet(v, "y", 0),
                                DictGet(v, "z", 0) >>

\* C2 (amended): an object value without all of r, g, b is applied through
\* set_vector, with its x, y, z, exactly when it carries all of x, y, z; when
\* it omits some of x, y, z no setter is invoked for it.
C2_VectorNeedsAllKeys ==
  \A i \in Processed :
    LET v == parameters[i].value
        cs == CallsFor(parameters[i].name)
    IN (v.kind = "object" /\ ~IsColorObject(v)) =>
         IF {"x", "y", "z"} \subseteq v.keys
         THEN /\ Len(cs) = 1
              /\ cs[1].fn = "set_vector"
              /\ cs[1].arg = <<v.at["x"], v.at["y"], v.at["z"]>>
         ELSE cs = <<>>

\* C2 witness: {"x": 5} was gone through and the call ended with no setter
\* invoked for it.
C2_Witness ==
  /\ pc = "done"
  /\ \E i \in Processed :
       /\ parameters[i].value = ObjectValue({"x"}, CompA)
       /\ CallsFor(parameters[i].name) = <<>>

\* C3 (as stated): the attempted count reported equals the number of
\* setter invocations.
C3_AttemptedIsSetterCalls ==
  report # <<>> => report[2] = Len(SetterCalls)

\* C3 (amended): the attempted count reported is the number of pairs of the
\* mapping, unrecognized values included; setters are invoked for the
\* recognized pairs only, so the two agree exactly when every pair is
\* recognized.
C3_AttemptedIsMappingSize ==
  report # <<>> =>
    LET rec == {i \in DOMAIN parameters : IsRecognized(parameters[i].value)} IN
      /\ report[2] = Len(parameters)
      /\ Len(SetterCalls) = Cardinality(rec)
      /\ (report[2] = Len(SetterCalls)) <=> (rec = DOMAIN parameters)

\* C3 witness: a report whose attempted count exceeds the setter invocations.
C3_Witness ==
  /\ report # <<>>
  /\ report[2] = 2
  /\ Len(SetterCalls) = 1

\* C4: a completion text that is not valid JSON makes adjust_parameters
\* return False through its except clause, and no setter is invoked at any
\* point of the call.
C4_MalformedJsonNoWrites ==
  (TextReturned /\ ~ai_response.wellformed) =>
    /\ SetterCalls = <<>>
    /\ pc \in {"parse", "done"}
    /\ pc = "done" => (ret = FALSE /\ caught = "JSONDecodeError")

\* C4 witness: a malformed text that mentions parameters ended the call.
C4_Witness ==
  /\ pc = "done"
  /\ TextReturned
  /\ ~ai_response.wellformed
  /\ ai_response.doc.parameters # <<>>

\* C5: with OPENAI_API_KEY unset or empty is_available is false, and a call
\* of adjust_parameters returns False having called neither the provider,
\* nor get_parameter_names, nor a setter.
C5_NoKeyShortCircuits ==
  ~Truthy(env_api_key) =>
    /\ ~is_available
    /\ calls = <<>>
    /\ pc \in {"idle", "done"}
    /\ pc = "done" => ret = FALSE

\* C5 witness: a call returned with the library present and the key empty.
C5_Witness ==
  /\ OPENAI_AVAILABLE
  /\ env_api_key = ""
  /\ pc = "done"

C7_ExplanationAlways ==
  (pc = "done" /\ ParsedJson /\ adjustments.isobject) =>
    explained = GetExplanation(adjustments)

\* C7 (amended): once the text parsed as JSON, the explanation (the field,
\* or the default) is logged when the result is success, and nothing is
\* surfaced when it is failure.
C7_ExplanationOnSuccessOnly ==
  (pc = "done" /\ ParsedJson) =>
    IF ret
    THEN explained = GetExplanation(adjustments)
    ELSE explained = NotLogged

\* C7 witness: every setter returned false, the response carried an
\* explanation, and none was logged.
C7_Witness ==
  /\ pc = "done"
  /\ ParsedJson
  /\ adjustments.has_explanation
  /\ report # <<>>
  /\ SetterCalls # <<>>
  /\ ~ret
  /\ explained = NotLogged

\* C8: with parameters absent or empty _apply_adjustments returns False as
\* a value, no setter is invoked and no exception is raised.
C8_EmptyParametersFail ==
  ( /\ pc \in {"finish", "done"}
    /\ ParsedJson
    /\ adjustments.isobject
    /\ (~adjustments.has_parameters \/ adjustments.parameters = <<>>) )
  => /\ ~success
     /\ SetterCalls = <<>>
     /\ report = <<>>
     /\ caught = None
     /\ pc = "done" => ret = FALSE

\* C8 witness: {"parameters": {}, "explanation": ...} ended the call.
C8_Witness ==
  /\ pc = "done"
  /\ ParsedJson
  /\ adjustments = ObjectDoc(TRUE, <<>>, TRUE)

\* C9: an object with r, g, b and no a is applied through set_color with
\* its r, g, b and a = 1.
C9_ColorAlphaDefault ==
  \A i \in Processed :
    LET v == parameters[i].value
        cs == CallsFor(parameters[i].name)
    IN (IsColorObject(v) /\ "a" \notin v.keys) =>
         /\ Len(cs) = 1
         /\ cs[1].fn = "set_color"
         /\ cs[1].arg = <<v.at["r"], v.at["g"], v.at["b"], 1>>

\* C9 witness: {"r": 1, "g": 0, "b": 0} was written as (1, 0, 0, 1).
C9_Witness ==
  \E i \in Processed :
    /\ parameters[i].value = ObjectValue({"r", "g", "b"}, CompA)
    /\ \E k \in DOMAIN calls :
         /\ calls[k].fn = "set_color"
         /\ calls[k].name = parameters[i].name
         /\ calls[k].arg = <<1, 0, 0, 1>>
         /\ calls[k].ret

\* C10: a failed host write makes the setter return false, never raise, and
\* the loop goes on: every recognized pair gone through has had its setter
\* invoked exactly once, and a call with a non-empty mapping ends only
\* after the whole mapping was gone through.
C10_FailedWriteDoesNotAbort ==
  /\ caught # "Exception"
  /\ \A i \in Processed :
       IsRecognized(parameters[i].value) =>
         Len(CallsFor(parameters[i].name)) = 1
  /\ (pc \in {"finish", "done"} /\ parameters # <<>>) =>
       /\ report # <<>>
       /\ Processed = DOMAIN parameters

\* C10 witness: the first setter failed and the second pair was still
\* written.
C10_Witness ==
  /\ pc = "done"
  /\ Len(parameters) = 2
  /\ Len(SetterCalls) = 2
  /\ ~SetterCalls[1].ret
  /\ SetterCalls[1].fn = "set_float"
  /\ SetterCalls[2].name = parameters[2].name

\* C11 (as stated): every entry get_all_parameters records carries the kind
\* of the first of the Scalar, Vector3, Color host reads that does not
\* fail, and "unknown" with a null value when all three fail.
C11_FirstReadThatSucceeds ==
  \A i \in DOMAIN params :
    LET h == gp_host[i] IN
      /\ params[i].type =
           IF h.float THEN "float"
           ELSE IF h.vector THEN "vector"
           ELSE IF h.color THEN "color"
           ELSE "unknown"
      /\ (~h.float /\ ~h.vector /\ ~h.color) => params[i].value = NoValue

\* the completion invocations of the call
CreateCalls == {k \in DOMAIN calls : calls[k].fn = "create"}

\* C12: in one call of adjust_parameters the provider is invoked at most
\* once; when that invocation raises, the call ends at once with False, the
\* exception caught, no second invocation and no setter; and every setter
\* invocation comes after a completion invocation that returned.
C12_SingleCompletionBeforeWrites ==
  /\ Cardinality(CreateCalls) <= 1
  /\ \A k \in CreateCalls :
       ~calls[k].ret =>
         /\ pc = "done"
         /\ ret = FALSE
         /\ caught = "ProviderError"
         /\ k = Len(calls)
         /\ SetterCalls = <<>>
  /\ \A k \in DOMAIN calls :
       calls[k].fn \in SetterFns =>
         \E j \in CreateCalls : j < k /\ calls[j].ret

\* C12 witness: the completion invocation raised and the call has returned.
C12_Witness ==
  /\ pc = "done"
  /\ \E k \in CreateCalls : ~calls[k].ret
  /\ caught = "ProviderError"

====
